---- MODULE Spec2Model ----
(***************************************************************************)
(* Certificate mailer (src/main.py): load_config, read_recipients, the     *)
(* confirmation prompt, the per-recipient render/send loop of main with    *)
(* its try/except accounting, send_email's try/finally around the SMTP     *)
(* session, and the pure function sanitize_filename.                       *)
(*                                                                         *)
(* A Python str is modelled as a sequence of one-character strings, so     *)
(* that strip(), lower(), re.sub() and slicing are computed on characters. *)
(***************************************************************************)
EXTENDS Integers, Sequences, FiniteSets, TLC

VARIABLES
    pc,             \* position of main / send_email / read_recipients
    cfgStatus,      \* "unread" | "ok" | "error": outcome of load_config in main
    config,         \* keys of the loaded config dict
    csvStatus,      \* "unread" | "ok" | "error": outcome of read_recipients(DATA_CSV)
    csv,            \* rows that csv.reader yields for data.csv
    rowIdx,         \* rows of csv consumed by the for loop of read_recipients
    items,          \* read_recipients' local list
    disp,           \* per consumed row, the branch of the loop body it took
    recipients,     \* main's list, as returned by read_recipients
    answer,         \* raw text returned by input()
    confirmed,      \* the prompt was answered with yes / y
    idx,            \* enumerate index of the recipient being processed
    success_count,
    fail_count,
    exitCode,       \* -1 while running, else the process exit status
    summary,        \* <<>> until printed, then <<attempted, successful, failed>>
    server,         \* id of send_email's local SMTP object (0: none)
    openConns,      \* ids of the SMTP connections currently open
    opened,         \* per connection ever opened, the recipient index it was opened for
    exc,            \* an exception is propagating through send_email's finally
    missing,        \* recipient indices whose template.exists() was False
    raised,         \* recipient indices whose render or send raised
    drawn,          \* recipient indices whose text was drawn on the image
    wrote,          \* recipient indices whose PNG was saved
    files,          \* file names present in output/
    sent,           \* recipient indices whose send_message completed
    renderCalls,    \* names passed to write_text_on_image, in call order
    sendCalls,      \* <<index, email, name>> passed to send_email, in call order
    results,        \* per processed recipient, "succeeded" | "failed"
    san_pc,         \* position of the sanitize_filename harness
    san_in,         \* its input string
    san_out,        \* sanitize_filename(san_in)
    san_out2        \* sanitize_filename(san_out)

mainVars == <<pc, cfgStatus, config, csvStatus, csv, rowIdx, items, disp,
              recipients, answer, confirmed, idx, success_count, fail_count,
              exitCode, summary, server, openConns, opened, exc, missing,
              raised, drawn, wrote, files, sent, renderCalls, sendCalls, results>>
sanVars == <<san_pc, san_in, san_out, san_out2>>
vars == <<mainVars, sanVars>>

(***************************************************************************)
(* Bounds of the model.                                                    *)
(***************************************************************************)
MaxRows == 3        \* rows in data.csv
MaxTail == 3        \* free characters after the padding of a sanitize input

(***************************************************************************)
(* Strings.                                                                *)
(***************************************************************************)
Min(S) == CHOOSE x \in S : \A y \in S : x <= y
Max(S) == CHOOSE x \in S : \A y \in S : x >= y

IsSpace(c) == c \in {" ", "\t"}

\* str.strip()
Strip(s) ==
    LET keep == {i \in 1..Len(s) : ~IsSpace(s[i])}
    IN  IF keep = {} THEN <<>> ELSE SubSeq(s, Min(keep), Max(keep))

LowerChar(c) ==
    CASE c = "A" -> "a" [] c = "B" -> "b" [] c = "E" -> "e" [] c = "I" -> "i"
      [] c = "L" -> "l" [] c = "M" -> "m" [] c = "N" -> "n" [] c = "O" -> "o"
      [] c = "S" -> "s" [] c = "Y" -> "y" [] OTHER -> c

\* str.lower()
Lower(s) == [i \in 1..Len(s) |-> LowerChar(s[i])]

\* the characters \w matches, among those the model uses
WordChars == {"a", "b", "c", "e", "g", "i", "l", "m", "n", "o", "p", "r", "s",
              "t", "x", "y", "A", "B", "E", "I", "L", "M", "N", "O", "S", "Y", "_"}

\* the complement of the class [^\w\-_(). ]
IsAllowed(c) == c \in WordChars \cup {"-", "_", "(", ")", ".", " "}

FILENAME_LIMIT == 120
RECIPIENT == <<"r", "e", "c", "i", "p", "i", "e", "n", "t">>
PNG == <<".", "p", "n", "g">>

\* safe[:n]
Prefix(s, n) == SubSeq(s, 1, IF Len(s) < n THEN Len(s) ELSE n)

sanitize_filename(name) ==
    LET safe == Strip(SelectSeq(name, IsAllowed))
    IN  Prefix(IF safe = <<>> THEN RECIPIENT ELSE safe, FILENAME_LIMIT)

(***************************************************************************)
(* The environment of a run: the contents of config.json, the rows of      *)
(* data.csv and the text typed at the prompt.                              *)
(***************************************************************************)
RequiredKeys == {"email", "app_password", "smtp_server", "smtp_port"}

\* config.json: absent, not JSON, or an object with some of the keys
ConfigFiles ==
    {[kind |-> "absent", keys |-> {}], [kind |-> "malformed", keys |-> {}]}
        \cup {[kind |-> "dict", keys |-> k] : k \in SUBSET RequiredKeys}

\* load_config: the exception it raises, or "ok"
load_config(file) ==
    IF file.kind = "absent" THEN "FileNotFoundError"
    ELSE IF file.kind = "malformed" THEN "JSONDecodeError"
    ELSE IF RequiredKeys \ file.keys # {} THEN "KeyError"
    ELSE "ok"

NAME == <<"n", "a", "m", "e">>
EMAIL == <<"e", "m", "a", "i", "l">>
HDR_NAME == <<"N", "a", "m", "e">>
HDR_EMAIL == <<"E", "M", "A", "I", "L">>
ALICE == <<"A", "l">>
ALICE_MAIL == <<"a", "@", "x">>
BOB_PADDED == <<" ", "B", "/", "o", " ">>
BOB_MAIL == <<"b", "@", "x">>
BLANK == <<" ">>
EMPTY == <<>>

\* the rows a line of data.csv can parse to
RowChoices ==
    { <<>>,                              \* empty line
      <<BLANK, EMPTY>>,                  \* only whitespace cells
      <<ALICE>>,                         \* one field
      <<ALICE, ALICE_MAIL>>,             \* name,email
      <<EMPTY, BOB_MAIL>>,               \* empty name
      <<HDR_NAME, HDR_EMAIL>>,           \* header
      <<BOB_PADDED, BOB_MAIL, NAME>> }   \* name,email,group

RECURSIVE SeqsUpTo(_, _)
SeqsUpTo(S, n) ==
    IF n = 0 THEN {<<>>}
    ELSE LET shorter == SeqsUpTo(S, n - 1)
         IN  shorter \cup {Append(q, x) : q \in {r \in shorter : Len(r) = n - 1}, x \in S}

CsvFiles == SeqsUpTo(RowChoices, MaxRows)

YES == <<"y", "e", "s">>
Y == <<"y">>
Answers == {<<"y">>, <<" ", "Y", "E", "S", " ">>, <<"n", "o">>,
            <<"y", "e", "s", "s">>, <<>>}

(***************************************************************************)
(* read_recipients: the branch of the loop body a row takes, given the     *)
(* items collected so far.                                                 *)
(***************************************************************************)
RowBranch(row, collected) ==
    IF row = <<>> \/ \A i \in 1..Len(row) : Strip(row[i]) = <<>> THEN "blank"
    ELSE IF Len(collected) = 0 /\ \E i \in 1..Len(row) : Lower(row[i]) \in {NAME, EMAIL}
        THEN "header"
    ELSE IF Len(row) < 2 THEN "short"
    ELSE IF Strip(row[1]) = <<>> \/ Strip(row[2]) = <<>> THEN "incomplete"
    ELSE "append"

Init ==
    /\ pc = "load_config"
    /\ cfgStatus = "unread"
    /\ config = {}
    /\ csvStatus = "unread"
    /\ csv \in CsvFiles
    /\ rowIdx = 0
    /\ items = <<>>
    /\ disp = <<>>
    /\ recipients = <<>>
    /\ answer = <<>>
    /\ confirmed = FALSE
    /\ idx = 0
    /\ success_count = 0
    /\ fail_count = 0
    /\ exitCode = -1
    /\ summary = <<>>
    /\ server = 0
    /\ openConns = {}
    /\ opened = <<>>
    /\ exc = FALSE
    /\ missing = {}
    /\ raised = {}
    /\ drawn = {}
    /\ wrote = {}
    /\ files = {}
    /\ sent = {}
    /\ renderCalls = <<>>
    /\ sendCalls = <<>>
    /\ results = <<>>
    /\ san_pc = "idle"
    /\ san_in = <<>>
    /\ san_out = <<>>
    /\ san_out2 = <<>>

loaderVars == <<csvStatus, rowIdx, items, disp, recipients>>
promptVars == <<answer, confirmed>>
countVars == <<idx, success_count, fail_count, results>>
smtpVars == <<server, openConns, opened, exc, sent, sendCalls>>
renderVars == <<missing, drawn, wrote, files, renderCalls>>

\* sys.exit(code)
Exit(code) == pc' = "exit" /\ exitCode' = code

(***************************************************************************)
(* main, lines 220-248: setup.                                             *)
(***************************************************************************)
LoadConfigOk ==
    /\ pc = "load_config"
    /\ \E file \in ConfigFiles :
        /\ load_config(file) = "ok"
        /\ config' = file.keys
    /\ cfgStatus' = "ok"
    /\ pc' = "read_recipients"
    /\ UNCHANGED <<csv, loaderVars, promptVars, countVars, exitCode, summary,
                   smtpVars, renderVars, raised, sanVars>>

LoadConfigError ==
    /\ pc = "load_config"
    /\ \E file \in ConfigFiles : load_config(file) # "ok"
    /\ cfgStatus' = "error"
    /\ Exit(1)
    /\ UNCHANGED <<config, csv, loaderVars, promptVars, countVars, summary,
                   smtpVars, renderVars, raised, sanVars>>

\* as ReadRecipientsError, with sys.exit(0) in the handler
ReadRecipientsErrorExitsZero ==
    /\ pc = "read_recipients"
    /\ csvStatus' = "error"
    /\ Exit(0)
    /\ UNCHANGED <<cfgStatus, config, csv, rowIdx, items, disp, recipients,
                   promptVars, countVars, summary, smtpVars, renderVars, raised,
                   sanVars>>

\* read_recipients raises (data.csv does not exist) and main exits
ReadRecipientsError ==
    /\ pc = "read_recipients"
    /\ csvStatus' = "error"
    /\ Exit(1)
    /\ UNCHANGED <<cfgStatus, config, csv, rowIdx, items, disp, recipients,
                   promptVars, countVars, summary, smtpVars, renderVars, raised,
                   sanVars>>

\* data.csv exists: items = [] and the reader is opened
ReadRecipientsOpen ==
    /\ pc = "read_recipients"
    /\ items' = <<>>
    /\ rowIdx' = 0
    /\ pc' = "read_row"
    /\ UNCHANGED <<cfgStatus, config, csvStatus, csv, disp, recipients,
                   promptVars, countVars, exitCode, summary, smtpVars,
                   renderVars, raised, sanVars>>

\* one iteration of `for row in reader`
ReadRow ==
    /\ pc = "read_row"
    /\ rowIdx < Len(csv)
    /\ LET row == csv[rowIdx + 1]
           branch == RowBranch(row, items)
       IN  /\ disp' = Append(disp, branch)
           /\ items' = IF branch = "append"
                       THEN Append(items, <<Strip(row[1]), Strip(row[2])>>)
                       ELSE items
    /\ rowIdx' = rowIdx + 1
    /\ UNCHANGED <<pc, cfgStatus, config, csvStatus, csv, recipients,
                   promptVars, countVars, exitCode, summary, smtpVars,
                   renderVars, raised, sanVars>>

\* return items
ReadRecipientsReturn ==
    /\ pc = "read_row"
    /\ rowIdx = Len(csv)
    /\ recipients' = items
    /\ csvStatus' = "ok"
    /\ pc' = "check_recipients"
    /\ UNCHANGED <<cfgStatus, config, csv, rowIdx, items, disp, promptVars,
                   countVars, exitCode, summary, smtpVars, renderVars, raised,
                   sanVars>>

\* if not recipients: sys.exit(0)
NoRecipients ==
    /\ pc = "check_recipients"
    /\ recipients = <<>>
    /\ Exit(0)
    /\ UNCHANGED <<cfgStatus, config, csv, loaderVars, promptVars, countVars,
                   summary, smtpVars, renderVars, raised, sanVars>>

\* as Confirm, aborting only on an explicit no
ConfirmUnlessNo ==
    /\ pc = "check_recipients"
    /\ recipients # <<>>
    /\ \E typed \in Answers :
        /\ answer' = typed
        /\ IF Lower(Strip(typed)) \notin {<<"n", "o">>, <<"n">>}
           THEN /\ confirmed' = TRUE
                /\ success_count' = 0
                /\ fail_count' = 0
                /\ pc' = "loop"
                /\ UNCHANGED exitCode
           ELSE /\ Exit(0)
                /\ UNCHANGED <<confirmed, success_count, fail_count>>
    /\ UNCHANGED <<cfgStatus, config, csv, loaderVars, idx, results, summary,
                   smtpVars, renderVars, raised, sanVars>>

\* the prompt, and success_count = fail_count = 0 when it is accepted
Confirm ==
    /\ pc = "check_recipients"
    /\ recipients # <<>>
    /\ \E typed \in Answers :
        /\ answer' = typed
        /\ IF Lower(Strip(typed)) \in {YES, Y}
           THEN /\ confirmed' = TRUE
                /\ success_count' = 0
                /\ fail_count' = 0
                /\ pc' = "loop"
                /\ UNCHANGED exitCode
           ELSE /\ Exit(0)
                /\ UNCHANGED <<confirmed, success_count, fail_count>>
    /\ UNCHANGED <<cfgStatus, config, csv, loaderVars, idx, results, summary,
                   smtpVars, renderVars, raised, sanVars>>

(***************************************************************************)
(* main, lines 252-264: the per-recipient loop.                            *)
(***************************************************************************)
CurrentName == recipients[idx][1]
CurrentEmail == recipients[idx][2]

\* for idx, (name, email) in enumerate(recipients, start=1)
LoopNext ==
    /\ pc = "loop"
    /\ IF idx < Len(recipients)
       THEN idx' = idx + 1 /\ pc' = "render"
       ELSE pc' = "summary" /\ UNCHANGED idx
    /\ UNCHANGED <<cfgStatus, config, csv, loaderVars, promptVars,
                   success_count, fail_count, results, exitCode, summary,
                   smtpVars, renderVars, raised, sanVars>>

\* as Render, without the template.exists() check: a missing template is drawn
\* on as if it had been opened
RenderWithoutExistsCheck(templateExists, imageOk, outputOk) ==
    /\ renderCalls' = Append(renderCalls, CurrentName)
    /\ missing' = IF templateExists THEN missing ELSE missing \cup {idx}
    /\ drawn' = IF imageOk THEN drawn \cup {idx} ELSE drawn
    /\ IF imageOk /\ outputOk
       THEN /\ wrote' = wrote \cup {idx}
            /\ files' = files \cup {sanitize_filename(CurrentName) \o PNG}
            /\ pc' = "send_email"
            /\ UNCHANGED raised
       ELSE /\ raised' = raised \cup {idx}
            /\ pc' = "except"
            /\ UNCHANGED <<wrote, files>>

\* write_text_on_image(name) when template.exists() is templateExists, the
\* template opens as an image iff imageOk, and output/ can be written iff outputOk
Render(templateExists, imageOk, outputOk) ==
    /\ renderCalls' = Append(renderCalls, CurrentName)
    /\ missing' = IF templateExists THEN missing ELSE missing \cup {idx}
    /\ drawn' = IF templateExists /\ imageOk THEN drawn \cup {idx} ELSE drawn
    /\ IF templateExists /\ imageOk /\ outputOk
       THEN /\ wrote' = wrote \cup {idx}
            /\ files' = files \cup {sanitize_filename(CurrentName) \o PNG}
            /\ pc' = "send_email"
            /\ UNCHANGED raised
       ELSE /\ raised' = raised \cup {idx}
            /\ pc' = "except"
            /\ UNCHANGED <<wrote, files>>

WriteTextOnImage ==
    /\ pc = "render"
    /\ \E templateExists \in BOOLEAN, imageOk \in BOOLEAN, outputOk \in BOOLEAN :
        Render(templateExists, imageOk, outputOk)
    /\ UNCHANGED <<cfgStatus, config, csv, loaderVars, promptVars, countVars,
                   exitCode, summary, smtpVars, sanVars>>

(***************************************************************************)
(* send_email, lines 171-184.  make_message and the smtplib.SMTP           *)
(* constructor run before the try; starttls, login and send_message run    *)
(* inside it; quit runs in the finally clause.                             *)
(***************************************************************************)
SendEmailConnect ==
    /\ pc = "send_email"
    /\ sendCalls' = Append(sendCalls, <<idx, CurrentEmail, CurrentName>>)
    /\ \E connects \in BOOLEAN :
        IF connects
        THEN /\ opened' = Append(opened, idx)
             /\ server' = Len(opened) + 1
             /\ openConns' = openConns \cup {Len(opened) + 1}
             /\ exc' = FALSE
             /\ pc' = "starttls"
             /\ UNCHANGED raised
        ELSE /\ raised' = raised \cup {idx}
             /\ pc' = "except"
             /\ UNCHANGED <<opened, server, openConns, exc>>
    /\ UNCHANGED <<cfgStatus, config, csv, loaderVars, promptVars, countVars,
                   exitCode, summary, sent, renderVars, sanVars>>

\* server.starttls(): it completes, or raises and control passes to the finally clause
Starttls ==
    /\ pc = "starttls"
    /\ \E ok \in BOOLEAN :
        IF ok THEN pc' = "login" /\ UNCHANGED exc
              ELSE pc' = "finally" /\ exc' = TRUE
    /\ UNCHANGED <<cfgStatus, config, csv, loaderVars, promptVars, countVars,
                   exitCode, summary, server, openConns, opened, sent,
                   sendCalls, renderVars, raised, sanVars>>

\* server.login(...)
Login ==
    /\ pc = "login"
    /\ \E ok \in BOOLEAN :
        IF ok THEN pc' = "send_message" /\ UNCHANGED exc
              ELSE pc' = "finally" /\ exc' = TRUE
    /\ UNCHANGED <<cfgStatus, config, csv, loaderVars, promptVars, countVars,
                   exitCode, summary, server, openConns, opened, sent,
                   sendCalls, renderVars, raised, sanVars>>

\* server.send_message(msg)
SendMessage ==
    /\ pc = "send_message"
    /\ \E ok \in BOOLEAN :
        IF ok THEN sent' = sent \cup {idx} /\ UNCHANGED exc
              ELSE exc' = TRUE /\ UNCHANGED sent
    /\ pc' = "finally"
    /\ UNCHANGED <<cfgStatus, config, csv, loaderVars, promptVars, countVars,
                   exitCode, summary, server, openConns, opened, sendCalls,
                   renderVars, raised, sanVars>>

\* as Quit, with server.quit() after the try block instead of in a finally clause
QuitOnlyAfterSuccess ==
    /\ pc = "finally"
    /\ openConns' = IF exc THEN openConns ELSE openConns \ {server}
    /\ \E quitOk \in BOOLEAN :
        IF exc \/ ~quitOk
        THEN raised' = raised \cup {idx} /\ pc' = "except"
        ELSE pc' = "success" /\ UNCHANGED raised
    /\ exc' = FALSE
    /\ UNCHANGED <<cfgStatus, config, csv, loaderVars, promptVars, countVars,
                   exitCode, summary, server, opened, sent, sendCalls,
                   renderVars, sanVars>>

\* finally: server.quit().  smtplib closes the socket whether quit returns or
\* raises; an exception of quit, or the one already propagating, leaves send_email
Quit ==
    /\ pc = "finally"
    /\ openConns' = openConns \ {server}
    /\ \E quitOk \in BOOLEAN :
        IF exc \/ ~quitOk
        THEN raised' = raised \cup {idx} /\ pc' = "except"
        ELSE pc' = "success" /\ UNCHANGED raised
    /\ exc' = FALSE
    /\ UNCHANGED <<cfgStatus, config, csv, loaderVars, promptVars, countVars,
                   exitCode, summary, server, opened, sent, sendCalls,
                   renderVars, sanVars>>

\* as Success, with the failure counter incremented as well
SuccessCountsTwice ==
    /\ pc = "success"
    /\ success_count' = success_count + 1
    /\ fail_count' = fail_count + 1
    /\ results' = Append(results, "succeeded")
    /\ pc' = "loop"
    /\ UNCHANGED <<cfgStatus, config, csv, loaderVars, promptVars, idx,
                   exitCode, summary, smtpVars, renderVars, raised, sanVars>>

\* success_count += 1
Success ==
    /\ pc = "success"
    /\ success_count' = success_count + 1
    /\ results' = Append(results, "succeeded")
    /\ pc' = "loop"
    /\ UNCHANGED <<cfgStatus, config, csv, loaderVars, promptVars, idx,
                   fail_count, exitCode, summary, smtpVars, renderVars, raised,
                   sanVars>>

\* as Except, without the handler: the exception leaves main and the interpreter
\* exits with status 1
ExceptPropagates ==
    /\ pc = "except"
    /\ Exit(1)
    /\ UNCHANGED <<cfgStatus, config, csv, loaderVars, promptVars, countVars,
                   summary, smtpVars, renderVars, raised, sanVars>>

\* except Exception: fail_count += 1
Except ==
    /\ pc = "except"
    /\ fail_count' = fail_count + 1
    /\ results' = Append(results, "failed")
    /\ pc' = "loop"
    /\ UNCHANGED <<cfgStatus, config, csv, loaderVars, promptVars, idx,
                   success_count, exitCode, summary, smtpVars, renderVars,
                   raised, sanVars>>

\* the summary lines; main returns and the interpreter exits with status 0
Summary ==
    /\ pc = "summary"
    /\ summary' = <<Len(recipients), success_count, fail_count>>
    /\ Exit(0)
    /\ UNCHANGED <<cfgStatus, config, csv, loaderVars, promptVars, countVars,
                   smtpVars, renderVars, raised, sanVars>>

Next ==
    \/ LoadConfigOk
    \/ LoadConfigError
    \/ ReadRecipientsError
    \/ ReadRecipientsOpen
    \/ ReadRow
    \/ ReadRecipientsReturn
    \/ NoRecipients
    \/ Confirm
    \/ LoopNext
    \/ WriteTextOnImage
    \/ SendEmailConnect
    \/ Starttls
    \/ Login
    \/ SendMessage
    \/ Quit
    \/ Success
    \/ Except
    \/ Summary

Spec == Init /\ [][Next]_vars

(***************************************************************************)
(* sanitize_filename applied once and then to its own result.              *)
(***************************************************************************)
PadLens == {0, FILENAME_LIMIT - 2, FILENAME_LIMIT - 1, FILENAME_LIMIT}
SanChars == {"a", " ", "/"}

Repeat(c, n) == [i \in 1..n |-> c]

\* a run of n word characters followed by up to MaxTail free characters
SanInputs == {Repeat("a", n) \o tail : n \in PadLens, tail \in SeqsUpTo(SanChars, MaxTail)}

InitSan ==
    /\ pc = "off"
    /\ cfgStatus = "unread"
    /\ config = {}
    /\ csvStatus = "unread"
    /\ csv = <<>>
    /\ rowIdx = 0
    /\ items = <<>>
    /\ disp = <<>>
    /\ recipients = <<>>
    /\ answer = <<>>
    /\ confirmed = FALSE
    /\ idx = 0
    /\ success_count = 0
    /\ fail_count = 0
    /\ exitCode = -1
    /\ summary = <<>>
    /\ server = 0
    /\ openConns = {}
    /\ opened = <<>>
    /\ exc = FALSE
    /\ missing = {}
    /\ raised = {}
    /\ drawn = {}
    /\ wrote = {}
    /\ files = {}
    /\ sent = {}
    /\ renderCalls = <<>>
    /\ sendCalls = <<>>
    /\ results = <<>>
    /\ san_pc = "input"
    /\ san_in \in SanInputs
    /\ san_out = <<>>
    /\ san_out2 = <<>>

SanitizeOnce ==
    /\ san_pc = "input"
    /\ san_out' = sanitize_filename(san_in)
    /\ san_pc' = "once"
    /\ UNCHANGED <<mainVars, san_in, san_out2>>

SanitizeTwice ==
    /\ san_pc = "once"
    /\ san_out2' = sanitize_filename(san_out)
    /\ san_pc' = "twice"
    /\ UNCHANGED <<mainVars, san_in, san_out>>

NextSan == SanitizeOnce \/ SanitizeTwice

SpecSan == InitSan /\ [][NextSan]_vars

(***************************************************************************)
(* Properties.                                                             *)
(***************************************************************************)
Processed == 1..Len(results)
NamesOf(rs) == [i \in 1..Len(rs) |-> rs[i][1]]
InTry == pc \in {"starttls", "login", "send_message", "finally"}

\* C1: Failure containment.  Every error raised by write_text_on_image or
\* send_email is caught in that recipient's iteration and counted as exactly one
\* failure; the recipients are rendered once each, in loader order; a confirmed
\* run never stops before the summary and ends with every recipient processed.
C1_FailureContainment ==
    /\ renderCalls = SubSeq(NamesOf(recipients), 1, Len(renderCalls))
    /\ Len(renderCalls) = (IF pc = "render" THEN idx - 1 ELSE idx)
    /\ \A i \in raised : i \in Processed => results[i] = "failed"
    /\ pc = "loop" => raised \subseteq Processed
    /\ fail_count = Cardinality(raised \cap Processed)
    /\ pc # "exit" => ENABLED Next
    /\ (confirmed /\ pc = "exit") =>
        /\ summary # <<>>
        /\ Len(results) = Len(recipients)

\* an earlier recipient raised, a later one succeeded, and the summary was printed
C1_Witness ==
    /\ pc = "exit"
    /\ summary # <<>>
    /\ \E i \in raised : \E j \in Processed : i < j /\ results[j] = "succeeded"

CountInv ==
    /\ success_count >= 0
    /\ fail_count >= 0
    /\ success_count + fail_count = Len(results)
    /\ pc = "loop" => success_count + fail_count = idx
    /\ summary # <<>> =>
        /\ summary = <<Len(recipients), success_count, fail_count>>
        /\ success_count + fail_count = Len(recipients)

CountStep ==
    \/ UNCHANGED <<success_count, fail_count, results>>
    \/ /\ pc \in {"success", "except"}
       /\ Len(results') = Len(results) + 1
       /\ \/ success_count' = success_count + 1 /\ fail_count' = fail_count
          \/ success_count' = success_count /\ fail_count' = fail_count + 1

\* C2: Batch accounting.  The counters start at 0, change only where the loop
\* closes a recipient's iteration, one of them by exactly 1, never decrease;
\* after k recipients succeeded + failed = k, and the summary reports
\* succeeded + failed = attempted = the number of loaded recipients.
C2_BatchAccounting == [](CountInv) /\ [][CountStep]_vars

\* a summary with both successes and failures
C2_Witness == summary # <<>> /\ success_count > 0 /\ fail_count > 0

\* C3: SMTP session release.  A connection is open only inside send_email's try
\* block, it is the one opened for the current recipient, each recipient gets a
\* connection of its own, and none is open once send_email has returned or raised.
C3_SessionRelease ==
    /\ InTry => /\ openConns = {server}
                /\ server = Len(opened)
                /\ opened[server] = idx
    /\ ~InTry => openConns = {}
    /\ \A a, b \in 1..Len(opened) : a < b => opened[a] < opened[b]

\* send_email raised inside the try block for the second connection of the run
\* and nothing is left open
C3_Witness ==
    /\ pc = "except"
    /\ Len(opened) >= 2
    /\ opened[Len(opened)] = idx
    /\ idx \notin sent
    /\ openConns = {}

\* C4: Missing template.  A recipient whose template does not exist is not drawn,
\* no file is written for it, send_email is not called and no connection is
\* opened for it, it is counted as failed, and the run still processes the rest.
C4_MissingTemplate ==
    \A i \in missing :
        /\ i \notin drawn
        /\ i \notin wrote
        /\ \A k \in 1..Len(sendCalls) : sendCalls[k][1] # i
        /\ \A k \in 1..Len(opened) : opened[k] # i
        /\ i \in Processed => results[i] = "failed"
        /\ pc = "exit" => Len(results) = Len(recipients)
        /\ pc = "loop" => i \in Processed

\* the template was missing for one recipient and a later one was delivered
C4_Witness ==
    /\ pc = "exit"
    /\ \E i \in missing : \E j \in sent : i < j

\* the rows the loader contract keeps: at least two fields, name and email
\* non-empty after trimming; a header is the first non-blank row when its name
\* and email cells read name and email
IsBlankRow(row) == row = <<>> \/ \A i \in 1..Len(row) : Strip(row[i]) = <<>>
NotBlankRow(row) == ~IsBlankRow(row)
IsHeaderRow(row) ==
    /\ Len(row) >= 2
    /\ Lower(Strip(row[1])) = NAME
    /\ Lower(Strip(row[2])) = EMAIL
IsValidRow(row) == Len(row) >= 2 /\ Strip(row[1]) # <<>> /\ Strip(row[2]) # <<>>
ValidRows(rows) ==
    LET nonBlank == SelectSeq(rows, NotBlankRow)
        body == IF nonBlank # <<>> /\ IsHeaderRow(nonBlank[1]) THEN Tail(nonBlank) ELSE nonBlank
        kept == SelectSeq(body, IsValidRow)
    IN  [i \in 1..Len(kept) |-> <<Strip(kept[i][1]), Strip(kept[i][2])>>]

\* C5: Batch isolation.  read_recipients returns exactly the valid rows, in input
\* order, and main renders for exactly those.
C5_BatchIsolation ==
    /\ csvStatus = "ok" => recipients = ValidRows(csv)
    /\ summary # <<>> => renderCalls = NamesOf(ValidRows(csv))

\* C6: Header detection.  A row is discarded as a header only if no non-blank
\* row precedes it and its name and email cells read name and email.
C6_HeaderOnlyFirstRow ==
    \A k \in 1..Len(disp) :
        disp[k] = "header" =>
            /\ \A j \in 1..(k - 1) : IsBlankRow(csv[j])
            /\ IsHeaderRow(csv[k])

\* C7: Sanitization is idempotent.
C7_SanitizeIdempotent == san_pc = "twice" => san_out2 = san_out

ConfigFailed == pc = "exit" /\ cfgStatus = "error"
SourceMissing == pc = "exit" /\ csvStatus = "error"
EmptyRecipients == pc = "exit" /\ csvStatus = "ok" /\ recipients = <<>>
LoopCompleted == pc = "exit" /\ summary # <<>>

C9_NoWorkBeforeSetup ==
    /\ (renderCalls # <<>> \/ drawn # {} \/ wrote # {} \/ files # {}
            \/ sendCalls # <<>> \/ opened # <<>> \/ openConns # {}) =>
        /\ cfgStatus = "ok"
        /\ RequiredKeys \subseteq config
        /\ csvStatus = "ok"
        /\ recipients # <<>>
        /\ Lower(Strip(answer)) \in {YES, Y}
    /\ cfgStatus = "error" => csvStatus = "unread" /\ rowIdx = 0 /\ disp = <<>>

\* a connection was opened after a padded, upper-case yes
C9_Witness == opened # <<>> /\ answer \notin {YES, Y}

\* C10: the success counter counts deliveries exactly: a processed recipient is
\* counted as succeeded iff send_message completed for it.
C10_CountsDeliveries ==
    \A i \in Processed : results[i] = "succeeded" <=> i \in sent

====
